---- MODULE Spec2Model ----
(***************************************************************************)
(* The NFL schedule viewer of src/public/js: the reactive state of the Vue *)
(* application (app.js, setup), its computed properties as operators over  *)
(* that state, and its handlers (mount, the one-shot schedule fetch, the   *)
(* 60 s timer, the week control, the provider toggles, the per-game        *)
(* provider processing done while rendering) as actions.                   *)
(*                                                                         *)
(* Instants are milliseconds since an arbitrary origin, as Date.getTime()  *)
(* gives them.  An absent / null / undefined JavaScript value is the empty *)
(* sequence None, a present one the one-element sequence Some(x); absent   *)
(* strings are "" (JavaScript treats both as falsy everywhere they are     *)
(* read here).                                                             *)
(***************************************************************************)
EXTENDS Integers, Sequences, FiniteSets, TLC

VARIABLES loading, error, schedule, now, selectedWeek, providerOptions,
          selectedProviders, nowInterval, pc, fetches, source

vars == <<loading, error, schedule, now, selectedWeek, providerOptions,
          selectedProviders, nowInterval, pc, fetches, source>>

----------------------------------------------------------------------------
(* Bounds of the model *)

\* instants are the multiples of two hours 0 .. MaxSlot
MaxSlot == 3
\* a schedule document holds at most MaxGames game records
MaxGames == 3
\* a game of a provider document holds at most MaxProviders provider entries
MaxProviders == 2

----------------------------------------------------------------------------
(* Values *)

None == <<>>
Some(x) == <<x>>

LIVE_WINDOW_HOURS == 4

\* the instant k slots of two hours after the origin
Slot(k) == 7200000 * k

Instants == {Slot(k) : k \in 0..MaxSlot}

\* the provider entry `null` of a minimally schema-conforming document
NullProvider == [null |-> TRUE]

Provider(kind, name, code, url, domain) ==
  [kind |-> kind, name |-> name, code |-> code, url |-> url, domain |-> domain]

\* the provider entries of the documents: every kind; with a URL that parses,
\* with one that does not, with a domain only; streaming entries of two
\* codes and of none; and null
ProviderPool ==
  { Provider("TV", "Alpha", "", "http://www.example.com/watch", ""),
    Provider("TV", "Alpha", "", "example", ""),
    Provider("RADIO", "Bravo", "", "", "example.com"),
    Provider("STREAMING", "Bravo", "X", "http://www.example.com/watch", ""),
    Provider("STREAMING", "Alpha", "Y", "http://www.example.com/watch", ""),
    Provider("STREAMING", "", "", "", "example.com"),
    NullProvider }

Game(week, kickoffUtc, status, estimatedDurationMinutes, providers) ==
  [week |-> week, kickoffUtc |-> kickoffUtc, status |-> status,
   estimatedDurationMinutes |-> estimatedDurationMinutes,
   providers |-> providers]

SeqsUpTo(S, n) == UNION {[1..k -> S] : k \in 0..n}

Scheduled(week, kickoffUtc) == Game(week, Some(kickoffUtc), "SCHEDULED", None, <<>>)

\* the games of the documents, without providers: scheduled games without a
\* duration in weeks 1, 2, 3 and 18, some of them at the same kickoff; in
\* week 1 a finished game, a game marked live, a game with a duration of two
\* hours and one with a duration of 0; and an unscheduled game (kickoffUtc
\* null)
WeekGames ==
  { Scheduled(1, Slot(0)), Scheduled(1, Slot(1)),
    Scheduled(2, Slot(1)), Scheduled(2, Slot(2)),
    Scheduled(3, Slot(2)),
    Scheduled(18, Slot(2)),
    Game(1, Some(Slot(0)), "FINAL", None, <<>>),
    Game(1, Some(Slot(1)), "LIVE", None, <<>>),
    Game(1, Some(Slot(1)), "SCHEDULED", Some(120), <<>>),
    Game(1, Some(Slot(1)), "SCHEDULED", Some(0), <<>>),
    Game(1, None, "SCHEDULED", None, <<>>) }

\* one game, with every list of provider entries
ProviderGames ==
  {Game(1, Some(Slot(1)), "SCHEDULED", None, ps) :
     ps \in SeqsUpTo(ProviderPool, MaxProviders)}

\* the JSON arrays the schedule source may serve
Documents ==
  SeqsUpTo(WeekGames, MaxGames) \cup {<<g>> : g \in ProviderGames}

----------------------------------------------------------------------------
(* utils.js *)

\* new Date(game.kickoffUtc).getTime(), of a game that has a kickoff
getKickoffDate(game) == game.kickoffUtc[1]

\* Number(game.estimatedDurationMinutes) > 0 ? that : LIVE_WINDOW_HOURS * 60
durationMin(game) ==
  IF game.estimatedDurationMinutes # None /\ game.estimatedDurationMinutes[1] > 0
    THEN game.estimatedDurationMinutes[1]
    ELSE LIVE_WINDOW_HOURS * 60

\* isLiveGame with the end of the window left out (< for <=)
isLiveGameBeforeEnd(game, t) ==
  IF game.status = "LIVE" THEN TRUE
  ELSE IF game.status = "FINAL" THEN FALSE
  ELSE LET start == getKickoffDate(game)
           end == start + durationMin(game) * 60 * 1000
       IN t >= start /\ t < end

isLiveGame(game, t) ==
  IF game.status = "LIVE" THEN TRUE
  ELSE IF game.status = "FINAL" THEN FALSE
  ELSE LET start == getKickoffDate(game)
           end == start + durationMin(game) * 60 * 1000
       IN t >= start /\ t <= end

\* Array.prototype.sort, which is stable, on <<key, element>> pairs with a
\* comparator that subtracts the keys: insertion after the last pair whose
\* key is not greater
RECURSIVE InsertSorted(_, _)
InsertSorted(x, s) ==
  IF s = <<>> THEN <<x>>
  ELSE IF s[Len(s)][1] <= x[1] THEN Append(s, x)
  ELSE Append(InsertSorted(x, SubSeq(s, 1, Len(s) - 1)), s[Len(s)])

RECURSIVE SortPairs(_)
SortPairs(s) ==
  IF s = <<>> THEN <<>>
  ELSE InsertSorted(s[Len(s)], SortPairs(SubSeq(s, 1, Len(s) - 1)))

\* games.slice().sort((a, b) => getKickoffDate(a) - getKickoffDate(b))
SortByKickoff(games) ==
  LET sorted == SortPairs([i \in 1..Len(games) |-> <<getKickoffDate(games[i]), games[i]>>])
  IN [i \in 1..Len(games) |-> sorted[i][2]]

\* String.prototype.localeCompare on the strings of the documents
StrRank(s) ==
  CASE s = "" -> 0
    [] s = "Alpha" -> 1
    [] s = "Bravo" -> 2
    [] s = "X" -> 3
    [] s = "Y" -> 4

\* const order = { TV: 0, STREAMING: 1, RADIO: 2 }, order[kind] ?? 99
KindOrder(kind) ==
  CASE kind = "TV" -> 0
    [] kind = "STREAMING" -> 1
    [] kind = "RADIO" -> 2
    [] OTHER -> 99

\* arr.sort((a, b) => (order[a.kind] ?? 99) - (order[b.kind] ?? 99) ||
\*                    (a.name || '').localeCompare(b.name || ''))
\* the two-level comparison as one key: names rank below 100
SortProviders(providers) ==
  LET sorted == SortPairs([i \in 1..Len(providers) |->
                   <<KindOrder(providers[i].kind) * 100 + StrRank(providers[i].name),
                     providers[i]>>])
  IN [i \in 1..Len(providers) |-> sorted[i][2]]

\* new URL(url).hostname.replace(/^www\./, ''); None when new URL throws
Hostname(url) ==
  CASE url = "http://www.example.com/watch" -> Some("example.com")
    [] OTHER -> None

\* url.startsWith('http')
StartsWithHttp(url) == url = "http://www.example.com/watch"

\* the loop of processProviders that fills in a missing domain
WithDomain(provider) ==
  IF provider.domain = "" /\ provider.url # "" /\ Hostname(provider.url) # None
    THEN [provider EXCEPT !.domain = Hostname(provider.url)[1]]
    ELSE provider

\* (p.url && p.url.startsWith('http')) || p.domain
Valid(p) == (p.url # "" /\ StartsWithHttp(p.url)) \/ p.domain # ""

\* the filter without the allow-list of codes
AllowedAnyCode(p, includeProviders) == Valid(p)

\* the filter of processProviders; includeRegions is not passed by the caller
Allowed(p, includeProviders) ==
  /\ Valid(p)
  /\ p.kind = "STREAMING" /\ Len(includeProviders) > 0
       => \E i \in 1..Len(includeProviders) : includeProviders[i] = p.code

\* a null entry makes the comparator or the domain loop throw a TypeError
HasNull(providers) == \E i \in 1..Len(providers) : providers[i] = NullProvider

\* the value processProviders returns
processProviders(game, includeProviders) ==
  LET arr == SortProviders(game.providers)
      withDomain == [i \in 1..Len(arr) |-> WithDomain(arr[i])]
  IN SelectSeq(withDomain, LAMBDA p : Allowed(p, includeProviders))

\* what processProviders leaves in game.providers: the entries are shared
\* with the sorted copy, so the domain it assigns lands in the source
ProvidersAfter(game) ==
  [i \in 1..Len(game.providers) |-> WithDomain(game.providers[i])]

\* the calendar day of an instant in the viewer's time zone, whose midnight
\* falls three hours after the origin
LocalDay(t) == (t + 75600000) \div 86400000

RECURSIVE groupGamesByDate(_)
groupGamesByDate(games) ==
  IF games = <<>> THEN <<>>
  ELSE LET sortedGames == SortByKickoff(games)
           firstKey == LocalDay(getKickoffDate(sortedGames[1]))
           same == SelectSeq(sortedGames,
                     LAMBDA g : LocalDay(getKickoffDate(g)) = firstKey)
           rest == SelectSeq(sortedGames,
                     LAMBDA g : LocalDay(getKickoffDate(g)) # firstKey)
       IN <<[key |-> firstKey, games |-> SortByKickoff(same)]>>
          \o groupGamesByDate(rest)

----------------------------------------------------------------------------
(* app.js: the computed properties, as functions of the state *)

Range(s) == {s[i] : i \in 1..Len(s)}

\* Array.from(set).sort((a, b) => a - b)
RECURSIVE SortedWeeks(_)
SortedWeeks(S) ==
  IF S = {} THEN <<>>
  ELSE LET m == CHOOSE x \in S : \A y \in S : x <= y
       IN <<m>> \o SortedWeeks(S \ {m})

\* array[0], undefined on an empty array
First(s) == IF s = <<>> THEN None ELSE Some(s[1])

currentWeek ==
  IF Len(schedule) = 0 THEN None
  ELSE LET sorted == SortByKickoff(schedule)
           pastOrNow == SelectSeq(sorted, LAMBDA g : getKickoffDate(g) <= now)
           future == SelectSeq(sorted, LAMBDA g : getKickoffDate(g) > now)
       IN IF Len(pastOrNow) > 0 THEN Some(pastOrNow[Len(pastOrNow)].week)
          ELSE IF future # <<>> THEN Some(future[1].week) ELSE None

earliestKickoff ==
  IF Len(schedule) = 0 THEN None
  ELSE Some(CHOOSE t \in {getKickoffDate(g) : g \in Range(schedule)} :
              \A g \in Range(schedule) : t <= getKickoffDate(g))

seasonHasStarted ==
  LET earliest == earliestKickoff
  IN IF earliest = None THEN FALSE ELSE now >= earliest[1]

\* firstWeekNumber without the filter g.week !== 18
firstWeekNumberAny ==
  First(SortedWeeks({g.week : g \in Range(schedule)}))

firstWeekNumber ==
  First(SortedWeeks({g.week : g \in {h \in Range(schedule) : h.week # 18}}))

availableFutureWeeks ==
  SortedWeeks({g.week : g \in {h \in Range(schedule) :
                                 h.week # 18 /\ getKickoffDate(h) > now}})

\* the last future week for the first
lastFutureWeek ==
  IF availableFutureWeeks = <<>> THEN None
  ELSE Some(availableFutureWeeks[Len(availableFutureWeeks)])

nextWeekNumber == First(availableFutureWeeks)

\* the filter without isLiveGame
RemainingUpcomingOnly(g, week) == g.week = week /\ getKickoffDate(g) >= now

\* g.week === week && (kickoff >= nowMs || isLiveGame(g, now.value))
Remaining(g, week) ==
  g.week = week /\ (getKickoffDate(g) >= now \/ isLiveGame(g, now))

isShowingThisWeek ==
  IF selectedWeek # None THEN FALSE
  ELSE IF Len(schedule) = 0 THEN FALSE
  ELSE IF ~seasonHasStarted THEN FALSE
  ELSE LET week == currentWeek
       IN IF week = None THEN FALSE
          ELSE LET weekUpcoming == SelectSeq(schedule, LAMBDA g : Remaining(g, week[1]))
               IN Len(weekUpcoming) > 0

\* availableFutureWeeks.value.find(w => w !== 18)
alternative == First(SelectSeq(availableFutureWeeks, LAMBDA w : w # 18))

\* selectedWeek.value ?? nextWeekNumber.value
Target == IF selectedWeek # None THEN selectedWeek ELSE nextWeekNumber

GamesOfWeek(week) == SelectSeq(schedule, LAMBDA g : g.week = week)

filteredGames ==
  LET week == currentWeek
      firstWeek == firstWeekNumber
      targetWeek == Target
  IN IF Len(schedule) = 0 THEN <<>>
     ELSE IF week = None THEN <<>>
     ELSE IF isShowingThisWeek
       THEN SelectSeq(schedule, LAMBDA g : Remaining(g, week[1]))
     ELSE IF ~seasonHasStarted /\ selectedWeek = None /\ firstWeek # None
       THEN GamesOfWeek(firstWeek[1])
     ELSE IF targetWeek = Some(18)
       THEN IF alternative # None THEN GamesOfWeek(alternative[1]) ELSE <<>>
     ELSE IF targetWeek = None THEN <<>>
     ELSE GamesOfWeek(targetWeek[1])

\* the title strings: `This week — Week N` is [text |-> "This week", week |-> Some(N)]
Title(text, week) == [text |-> text, week |-> week]

\* sectionTitle without the branch of this-week mode
sectionTitleOfNextWeek ==
  IF error THEN Title("Error loading schedule", None)
  ELSE IF loading THEN Title("Loading", None)
  ELSE IF Len(schedule) = 0 THEN Title("No upcoming NFL games", None)
  ELSE IF currentWeek = None THEN Title("No upcoming NFL games", None)
  ELSE IF ~seasonHasStarted /\ selectedWeek = None /\ firstWeekNumber # None
    THEN Title("Week", firstWeekNumber)
  ELSE IF Target = Some(18) /\ alternative = None
    THEN Title("No upcoming NFL games", None)
  ELSE LET target == IF Target = Some(18) THEN alternative ELSE Target
       IN IF target = None THEN Title("No upcoming NFL games", None)
          ELSE IF selectedWeek = None \/ target = nextWeekNumber
            THEN Title("Next week", target)
          ELSE Title("Week", target)

sectionTitle ==
  IF error THEN Title("Error loading schedule", None)
  ELSE IF loading THEN Title("Loading", None)
  ELSE IF Len(schedule) = 0 THEN Title("No upcoming NFL games", None)
  ELSE IF currentWeek = None THEN Title("No upcoming NFL games", None)
  ELSE IF isShowingThisWeek THEN Title("This week", currentWeek)
  ELSE IF ~seasonHasStarted /\ selectedWeek = None /\ firstWeekNumber # None
    THEN Title("Week", firstWeekNumber)
  ELSE IF Target = Some(18) /\ alternative = None
    THEN Title("No upcoming NFL games", None)
  ELSE LET target == IF Target = Some(18) THEN alternative ELSE Target
       IN IF target = None THEN Title("No upcoming NFL games", None)
          ELSE IF selectedWeek = None \/ target = nextWeekNumber
            THEN Title("Next week", target)
          ELSE Title("Week", target)

displayGroups == groupGamesByDate(filteredGames)

pickProviders(game) == processProviders(game, selectedProviders)

----------------------------------------------------------------------------
(* app.js: the handlers *)

\* the values the week control may emit
RawValues == {"", "abc", "1", "2", "18", "18.0"}

\* Number(raw) of a non-empty string; None is NaN
Number(raw) ==
  CASE raw = "1" -> Some(1)
    [] raw = "2" -> Some(2)
    [] raw = "18" -> Some(18)
    [] raw = "18.0" -> Some(18)
    [] OTHER -> None

\* handleWeekChange that stores 18 when there is no other future week
WeekForKeeping18(raw) ==
  LET value == IF raw = "" THEN None ELSE Number(raw)
  IN IF value = None THEN None
     ELSE IF value = Some(18) /\ alternative # None THEN alternative
     ELSE value

\* the week handleWeekChange stores for a raw value
WeekFor(raw) ==
  LET value == IF raw = "" THEN None ELSE Number(raw)
  IN IF value = None THEN None
     ELSE IF value = Some(18) THEN alternative
     ELSE value

handleWeekChange(raw) ==
  /\ pc # "setup"
  /\ selectedWeek' = WeekFor(raw)
  /\ UNCHANGED <<loading, error, schedule, now, providerOptions,
                 selectedProviders, nowInterval, pc, fetches, source>>

IndexOf(arr, x) ==
  IF \E i \in 1..Len(arr) : arr[i] = x
    THEN CHOOSE i \in 1..Len(arr) : arr[i] = x /\ \A j \in 1..(i - 1) : arr[j] # x
    ELSE 0

\* arr.splice(idx, 1)
Splice(arr, idx) == SubSeq(arr, 1, idx - 1) \o SubSeq(arr, idx + 1, Len(arr))

Toggled(arr, code) ==
  IF IndexOf(arr, code) = 0 THEN Append(arr, code)
  ELSE Splice(arr, IndexOf(arr, code))

\* the multi-select offers the codes of providerOptions
toggleProvider(code) ==
  /\ pc # "setup"
  /\ code \in {o.code : o \in Range(providerOptions)}
  /\ selectedProviders' = Toggled(selectedProviders, code)
  /\ UNCHANGED <<loading, error, schedule, now, selectedWeek, providerOptions,
                 nowInterval, pc, fetches, source>>

\* the games of the schedule that are displayed, by their place in it
DisplayedGames ==
  LET shown == Range(filteredGames)
  IN {i \in 1..Len(schedule) : schedule[i] \in shown}

\* rendering the displayed game i calls pickProviders(game); a null entry
\* makes processProviders throw before it assigns anything
RenderGame(i) ==
  /\ ~HasNull(schedule[i].providers)
  /\ schedule' = [schedule EXCEPT ![i].providers = ProvidersAfter(schedule[i])]
  /\ UNCHANGED <<loading, error, now, selectedWeek, providerOptions,
                 selectedProviders, nowInterval, pc, fetches, source>>

\* setInterval(() => { now.value = new Date() }, 60_000): the first tick
\* after the clock has reached the next instant
Tick ==
  /\ nowInterval
  /\ now + Slot(1) \in Instants
  /\ now' = now + Slot(1)
  /\ UNCHANGED <<loading, error, schedule, selectedWeek, providerOptions,
                 selectedProviders, nowInterval, pc, fetches, source>>

\* onMounted: loadSchedule() runs to its first await, the timer is started
Mount ==
  /\ pc = "setup"
  /\ pc' = "fetching"
  /\ fetches' = fetches + 1
  /\ nowInterval' = TRUE
  /\ UNCHANGED <<loading, error, schedule, now, selectedWeek, providerOptions,
                 selectedProviders, source>>

\* loadSchedule without its finally block
FinallySkipped == loading' = loading

\* finally { loading.value = false }
Finally == loading' = FALSE

\* catch (err) { error.value = true } finally { ... }
Catch == error' = TRUE /\ Finally /\ pc' = "done"

\* a throw before schedule.value is assigned
Fail ==
  /\ Catch
  /\ UNCHANGED <<schedule, now, selectedWeek, providerOptions,
                 selectedProviders, nowInterval, fetches, source>>

\* await fetch(...) rejects
FetchRejects == pc = "fetching" /\ Fail

\* await fetch(...) resolves; !response.ok throws
FetchResponds(ok) ==
  /\ pc = "fetching"
  /\ IF ok
       THEN /\ pc' = "parsing"
            /\ UNCHANGED <<loading, error, schedule, now, selectedWeek,
                           providerOptions, selectedProviders, nowInterval,
                           fetches, source>>
       ELSE Fail

\* await response.json() rejects: the body is not JSON
JsonRejects == pc = "parsing" /\ Fail

\* the body is JSON but no array
JsonNotArray == pc = "parsing" /\ Fail

RECURSIVE AllProviders(_)
AllProviders(games) ==
  IF games = <<>> THEN <<>>
  ELSE games[1].providers \o AllProviders(Tail(games))

\* providerMap: the first streaming entry of each code, in insertion order
RECURSIVE ProviderMap(_, _)
ProviderMap(ps, seen) ==
  IF ps = <<>> THEN <<>>
  ELSE IF ps[1].kind = "STREAMING" /\ ps[1].code # "" /\ ps[1].code \notin seen
    THEN <<[code |-> ps[1].code, name |-> ps[1].name]>>
         \o ProviderMap(Tail(ps), seen \cup {ps[1].code})
  ELSE ProviderMap(Tail(ps), seen)

\* Array.from(providerMap.values()).sort(by name || code)
Options(games) ==
  LET vals == ProviderMap(AllProviders(games), {})
      sorted == SortPairs([i \in 1..Len(vals) |->
                  <<StrRank(IF vals[i].name # "" THEN vals[i].name ELSE vals[i].code),
                    vals[i]>>])
  IN [i \in 1..Len(vals) |-> sorted[i][2]]

\* json.filter(game => game.kickoffUtc != null), sorted by kickoff
ScheduledGames(json) ==
  SortByKickoff(SelectSeq(json, LAMBDA g : g.kickoffUtc # None))

\* the rest of loadSchedule once response.json() gave an array: the schedule
\* is assigned, then the provider options are built, where p.kind of a null
\* entry throws
JsonArray(json) ==
  /\ pc = "parsing"
  /\ LET scheduledGames == ScheduledGames(json)
         options == Options(scheduledGames)
     IN /\ schedule' = scheduledGames
        /\ source' = scheduledGames
        /\ IF HasNull(AllProviders(scheduledGames))
             THEN /\ Catch
                  /\ UNCHANGED <<providerOptions, selectedProviders>>
             ELSE /\ providerOptions' = options
                  /\ selectedProviders' = [i \in 1..Len(options) |-> options[i].code]
                  /\ Finally
                  /\ pc' = "done"
                  /\ UNCHANGED error
  /\ UNCHANGED <<now, selectedWeek, nowInterval, fetches>>

\* await response.json() resolves with an array
JsonResolves == pc = "parsing" /\ \E json \in Documents : JsonArray(json)

Init ==
  /\ loading = TRUE
  /\ error = FALSE
  /\ schedule = <<>>
  /\ now \in Instants
  /\ selectedWeek = None
  /\ providerOptions = <<>>
  /\ selectedProviders = <<>>
  /\ nowInterval = FALSE
  /\ pc = "setup"
  /\ fetches = 0
  /\ source = <<>>

Next ==
  \/ Mount
  \/ FetchRejects
  \/ \E ok \in BOOLEAN : FetchResponds(ok)
  \/ JsonRejects
  \/ JsonNotArray
  \/ JsonResolves
  \/ Tick
  \/ \E raw \in RawValues : handleWeekChange(raw)
  \/ \E code \in {"X", "Y"} : toggleProvider(code)
  \/ \E i \in DisplayedGames : RenderGame(i)

Spec == Init /\ [][Next]_vars

\* the steps that take loadSchedule past its first await (FetchRejects,
\* FetchResponds) and past its second (JsonRejects, JsonNotArray, JsonArray):
\* any step that moves pc on.  Fail is one such step, written out so that
\* the step is seen to be enabled without going through the documents.
FetchSettles == pc = "fetching" /\ (Fail \/ pc' # "fetching")
JsonSettles == pc = "parsing" /\ (Fail \/ pc' = "done")

\* the page is mounted once the document is ready, and the network settles
\* every request and every read of a response body
FairSpec ==
  /\ Spec
  /\ WF_vars(Mount)
  /\ WF_vars(FetchSettles)
  /\ WF_vars(JsonSettles)

----------------------------------------------------------------------------
(* The claims.  Each is stated from the specification's words over the     *)
(* state, without the computed properties it is about.                     *)

Kick(g) == g.kickoffUtc[1]

ScheduleLoaded == Len(schedule) > 0

\* now >= the earliest kickoff of all games
SeasonStarted == \E g \in Range(schedule) : Kick(g) <= now

\* the latest game with kickoff <= now: the schedule is kept in kickoff order,
\* games of one kickoff in document order
LatestStarted ==
  schedule[CHOOSE i \in 1..Len(schedule) :
             /\ Kick(schedule[i]) <= now
             /\ \A j \in 1..Len(schedule) : Kick(schedule[j]) <= now => j <= i]

UpcomingOrLive(g) == Kick(g) >= now \/ isLiveGame(g, now)

\* the condition of this-week mode
ThisWeekCase ==
  /\ ScheduleLoaded
  /\ selectedWeek = None
  /\ SeasonStarted
  /\ \E g \in Range(schedule) : g.week = LatestStarted.week /\ UpcomingOrLive(g)

\* C1: in this-week mode isShowingThisWeek is true and the displayed games
\* are exactly the upcoming or live games of the current week
C1_ThisWeekMode ==
  ThisWeekCase =>
    /\ isShowingThisWeek
    /\ filteredGames =
         SelectSeq(schedule,
           LAMBDA g : g.week = LatestStarted.week /\ UpcomingOrLive(g))

\* this-week mode with a finished game of the current week and a game of
\* another week, both left out
C1_Witness ==
  /\ ThisWeekCase
  /\ filteredGames # <<>>
  /\ \E g \in Range(schedule) : g.week = LatestStarted.week /\ ~UpcomingOrLive(g)
  /\ \E g \in Range(schedule) : g.week # LatestStarted.week

\* the condition of the pre-season default
PreSeasonCase == ScheduleLoaded /\ selectedWeek = None /\ ~SeasonStarted

OtherWeeks == {g.week : g \in Range(schedule)} \ {18}

\* C2: before the season, with no selection, the displayed games are all
\* games of the earliest week other than 18, and none when there is only 18
C2_PreSeasonDefault ==
  PreSeasonCase =>
    /\ \A g \in Range(filteredGames) : g.week # 18
    /\ IF OtherWeeks = {} THEN filteredGames = <<>>
       ELSE filteredGames =
              SelectSeq(schedule,
                LAMBDA g : g.week \in OtherWeeks /\ \A w \in OtherWeeks : g.week <= w)

\* before the season with week 18 and two other weeks in the schedule
C2_Witness ==
  /\ PreSeasonCase
  /\ Cardinality(OtherWeeks) = 2
  /\ \E g \in Range(schedule) : g.week = 18
  /\ filteredGames # <<>>

\* the weeks other than 18 with a game whose kickoff is after now
FutureOtherWeeks == {g.week : g \in {h \in Range(schedule) : Kick(h) > now}} \ {18}

\* C3: outside this-week mode and the pre-season default the displayed games
\* are all games of the selected week, or without a selection all games of
\* the nearest future week other than 18, none when there is no such week
C3_FallbackWeek ==
  (ScheduleLoaded /\ ~ThisWeekCase /\ ~PreSeasonCase) =>
    IF selectedWeek # None
      THEN filteredGames = SelectSeq(schedule, LAMBDA g : g.week = selectedWeek[1])
    ELSE IF FutureOtherWeeks = {} THEN filteredGames = <<>>
    ELSE filteredGames =
           SelectSeq(schedule,
             LAMBDA g : g.week \in FutureOtherWeeks
                        /\ \A w \in FutureOtherWeeks : g.week <= w)

\* no selection, the current week is over, two later weeks are still to come
C3_Witness ==
  /\ ScheduleLoaded /\ ~ThisWeekCase /\ ~PreSeasonCase
  /\ selectedWeek = None
  /\ Cardinality(FutureOtherWeeks) = 2
  /\ filteredGames # <<>>

\* what the week control's value means
IsEighteen(raw) == raw \in {"18", "18.0"}
IsNoNumber(raw) == raw \in {"", "abc"}

C5_NoPartialData ==
  error => schedule = <<>> /\ filteredGames = <<>> /\ displayGroups = <<>>

\* the duration of the live window in minutes
WindowMinutes(g) ==
  IF g.estimatedDurationMinutes # None /\ g.estimatedDurationMinutes[1] > 0
    THEN g.estimatedDurationMinutes[1]
    ELSE 240

\* C6 as claimed: a game neither LIVE nor FINAL is live exactly in the
\* half-open window [K, K + D)
C6_LiveHalfOpen ==
  \A g \in Range(schedule) : \A t \in Instants :
    g.status \notin {"LIVE", "FINAL"} =>
      (isLiveGame(g, t) <=> Kick(g) <= t /\ t < Kick(g) + WindowMinutes(g) * 60000)

\* C6 amended: such a game is live exactly in the closed window [K, K + D]
C6_LiveClosed ==
  \A g \in Range(schedule) : \A t \in Instants :
    g.status \notin {"LIVE", "FINAL"} =>
      (isLiveGame(g, t) <=> Kick(g) <= t /\ t <= Kick(g) + WindowMinutes(g) * 60000)

\* now is the end of the window of a scheduled game with a duration, which
\* is shown as live
C6_Witness ==
  \E g \in Range(schedule) :
    /\ g.status = "SCHEDULED"
    /\ g.estimatedDurationMinutes = Some(120)
    /\ now = Kick(g) + 120 * 60000
    /\ isLiveGame(g, now)
    /\ g \in Range(filteredGames)

\* C7: the loaded games, their provider entries and their order stay as
\* they were loaded
C7_SourceNeverMutated == schedule = source

\* C8: one fetch, issued on mount; loading holds until it settles and never
\* again; an error stays, with no further fetch and no schedule assigned
\* after it; and every fetch settles, so loading ends
C8_LoadLifecycle ==
  /\ [](fetches = IF pc = "setup" THEN 0 ELSE 1)
  /\ [](loading <=> pc # "done")
  /\ [][~loading => ~loading']_vars
  /\ [][error => error' /\ fetches' = fetches /\ Len(schedule') = Len(schedule)]_vars
  /\ [][error' /\ ~error => ~loading' /\ pc' = "done"]_vars
  /\ <>(~loading)

\* the load has failed; the clock has moved on and a week is selected
C8_Witness ==
  /\ error /\ ~loading /\ pc = "done" /\ fetches = 1
  /\ schedule = <<>>
  /\ selectedWeek = Some(1)
  /\ now > 0

UsableLink(p) == p.domain # "" \/ p.url = "http://www.example.com/watch"

\* C9 as claimed: no streaming entry that has a code which is not selected
\* is returned, and every TV or radio entry with a usable URL or domain is
C9_SelectionHonoured ==
  (pc = "done" /\ ~error) =>
    \A g \in Range(schedule) :
      /\ \A p \in Range(pickProviders(g)) :
           p.kind = "STREAMING" /\ p.code # "" => p.code \in Range(selectedProviders)
      /\ \A p \in Range(g.providers) :
           p.kind \in {"TV", "RADIO"} /\ UsableLink(p)
             => \E q \in Range(pickProviders(g)) :
                  q.kind = p.kind /\ q.name = p.name /\ q.url = p.url

\* C9 amended: while some code is selected no streaming entry of another
\* code is returned; with no code selected every usable streaming entry is;
\* every TV or radio entry with a usable link always is
C9_SelectionHonouredWhenAny ==
  (pc = "done" /\ ~error) =>
    \A g \in Range(schedule) :
      /\ selectedProviders # <<>> =>
           \A p \in Range(pickProviders(g)) :
             p.kind = "STREAMING" => p.code \in Range(selectedProviders)
      /\ \A p \in Range(g.providers) :
           /\ UsableLink(p)
           /\ p.kind \in {"TV", "RADIO"}
              \/ (p.kind = "STREAMING" /\ selectedProviders = <<>>)
           => \E q \in Range(pickProviders(g)) :
                q.kind = p.kind /\ q.name = p.name /\ q.url = p.url
                /\ q.code = p.code

\* a game with usable streaming entries of two codes, one of them deselected
\* and left out
C9_Witness ==
  /\ pc = "done" /\ ~error
  /\ selectedProviders = <<"Y">>
  /\ \E g \in Range(schedule) :
       /\ \E p \in Range(g.providers) : p.kind = "STREAMING" /\ p.code = "X" /\ UsableLink(p)
       /\ \E p \in Range(pickProviders(g)) : p.code = "Y"
       /\ \A p \in Range(pickProviders(g)) : p.code # "X"

\* C10: a title that names week N goes with displayed games of week N only,
\* the title "No upcoming NFL games" with none
C10_TitleAgrees ==
  (~loading /\ ~error) =>
    /\ sectionTitle.week # None =>
         \A g \in Range(filteredGames) : g.week = sectionTitle.week[1]
    /\ sectionTitle.text = "No upcoming NFL games" => filteredGames = <<>>

\* "This week — Week N" over a non-empty list while a game of another week
\* is still to come
C10_Witness ==
  /\ ~loading /\ ~error
  /\ sectionTitle.text = "This week"
  /\ filteredGames # <<>>
  /\ \E g \in Range(schedule) : g.week # sectionTitle.week[1] /\ Kick(g) > now

====
